---- MODULE Spec2Model ----
(***************************************************************************)
(* A model of rancher-kubeconfig-proxy: Config.Validate, the Rancher      *)
(* client's GetAllKubeconfigs loop, and the kubeconfig Generator          *)
(* (ParseKubeconfig, ApplyPrefix, MergeConfigs).                          *)
(*                                                                         *)
(* Go strings that are only compared and concatenated are TLA+ strings    *)
(* (fmt.Sprintf("%s%s", a, b) is a \o b).  The token and the two keys of  *)
(* Config, which strings.SplitN cuts at a character, are sequences of     *)
(* one-character strings.  A Go map is a function on its key set.  A      *)
(* pointer to a cluster, user or context entry is the entry's record      *)
(* together with its address (field addr): two entries are the same       *)
(* object iff their addresses are equal.                                  *)
(***************************************************************************)
EXTENDS Naturals, Sequences, FiniteSets, TLC

VARIABLES
    pc,                 \* position of the run
    \* ---- Config.Validate
    c,                  \* the *Config receiver
    verr,               \* the error Validate returned
    \* ---- Generator
    prefix,             \* g.prefix
    config,             \* ApplyPrefix: the config argument
    clusterName,        \* ApplyPrefix: the clusterName argument
    prefixedConfig,     \* ApplyPrefix: the returned config
    clusterKubeconfigs, \* MergeConfigs: the argument, cluster name -> raw text
    todo,               \* MergeConfigs: keys the range loop has not visited yet
    order,              \* MergeConfigs: keys in the order the range loop visited them
    mergedConfig,       \* MergeConfigs: the local mergedConfig
    mret,               \* MergeConfigs: the returned (config, err)
    gret,               \* Generate: the returned (data, err)
    \* ---- Client.GetAllKubeconfigs
    clusters,           \* what ListClusters returned (collection.Data)
    idx,                \* index of the next record of the range loop
    kubeconfigs,        \* the local map kubeconfigs
    requests,           \* ids of the clusters a generateKubeconfig POST was sent for
    stderr,             \* the warning lines written to os.Stderr
    fetched,            \* per record visited: was GetClusterKubeconfig called, what it returned
    fret                \* the returned (kubeconfigs, err)

vars == <<pc, c, verr, prefix, config, clusterName, prefixedConfig,
          clusterKubeconfigs, todo, order, mergedConfig, mret, gret,
          clusters, idx, kubeconfigs, requests, stderr, fetched, fret>>

validateVars == <<c, verr>>
rewriteVars  == <<config, clusterName, prefixedConfig>>
mergeVars    == <<clusterKubeconfigs, todo, order, mergedConfig, mret, gret>>
fetchVars    == <<clusters, idx, kubeconfigs, requests, stderr, fetched, fret>>

\* Go's nil (a nil error, a nil *api.Config, a value not yet returned).
Nil == [nil |-> TRUE]

\* The empty Go map.
EmptyMap == [k \in {} |-> Nil]

\* fmt.Sprintf("%s%s", a, b)
Sprintf2(a, b) == a \o b

-----------------------------------------------------------------------------
(* Bounds of the model. *)

\* Prefixes the generator is built with ("" is the no-prefix fast path).
Prefixes == {"", "prod-"}

\* Names of the downstream clusters, as Rancher reports them.
ClusterNames == {"c1", "c2"}

\* Names of cluster and context entries inside one kubeconfig document
\* (an entry has a non-empty name).
EntryNames == {"c1", "c1-alt"}

\* Names of user (AuthInfo) entries inside one kubeconfig document.
UserNames == {"c1", "u1"}

\* Longest token of a Config, in characters.
MaxTokenLen == 3

\* Number of cluster records ListClusters returns at most.
MaxList == 3

\* A name that entries of the documents of different clusters may share.
Shared == "default"

\* Number of clusters whose documents MergeConfigs is given.
MaxDocs == 2

\* The clusters whose documents MergeConfigs is given.
SourceList == <<"c1", "c2", "c3", "c4">>
Sources == { SourceList[i] : i \in 1..MaxDocs }

-----------------------------------------------------------------------------
(* Config.Validate and Config.GetBasicAuth.  The strings of a Config are    *)
(* sequences of characters; "" is the empty sequence.                       *)

\* The sequences over `chars` of at most n characters.
Strings(chars, n) == UNION { [1..k -> chars] : k \in 0..n }

\* strings.TrimSuffix(s, "/")
TrimSlash(s) ==
    IF Len(s) > 0 /\ s[Len(s)] = "/" THEN SubSeq(s, 1, Len(s) - 1) ELSE s

\* strings.SplitN(s, ":", 2) for a non-empty s: s itself when it holds no
\* ":", else the part before the first ":" and the part after it.
SplitN2(s) ==
    IF \A i \in 1..Len(s) : s[i] # ":"
    THEN <<s>>
    ELSE LET i == CHOOSE j \in 1..Len(s) :
                      s[j] = ":" /\ \A k \in 1..(j - 1) : s[k] # ":"
         IN  <<SubSeq(s, 1, i - 1), SubSeq(s, i + 1, Len(s))>>

\* Config.Validate: the config it leaves and the error it returns.
Validate(cfg) ==
    IF cfg.RancherURL = <<>>
    THEN [c |-> cfg, err |-> [msg |-> "rancher URL is required"]]
    ELSE LET c1 == [cfg EXCEPT !.RancherURL = TrimSlash(@)]
         IN  IF c1.Token = <<>> /\ (c1.AccessKey = <<>> \/ c1.SecretKey = <<>>)
             THEN [c |-> c1,
                   err |-> [msg |-> "either token or access_key/secret_key pair is required"]]
             ELSE IF c1.Token # <<>>
                  THEN LET parts == SplitN2(c1.Token)
                       IN  IF Len(parts) # 2
                           THEN [c |-> c1, err |-> [msg |-> "invalid token format"]]
                           ELSE [c |-> [c1 EXCEPT !.AccessKey = parts[1],
                                                  !.SecretKey = parts[2]],
                                 err |-> Nil]
                  ELSE [c |-> c1, err |-> Nil]

\* Config.GetBasicAuth
GetBasicAuth(cfg) == <<cfg.AccessKey, cfg.SecretKey>>

\* SpecValidate: Validate called once on every Config of Configs.
Configs ==
    [RancherURL : Strings({"r", "/"}, 2),
     AccessKey : Strings({"k"}, 1),
     SecretKey : Strings({"s"}, 1),
     Token : Strings({"a", ":"}, MaxTokenLen)]

CallValidate ==
    /\ pc = "validate"
    /\ c' = Validate(c).c
    /\ verr' = Validate(c).err
    /\ pc' = "validated"
    /\ UNCHANGED <<prefix, config, clusterName, prefixedConfig,
                   clusterKubeconfigs, todo, order, mergedConfig, mret, gret,
                   clusters, idx, kubeconfigs, requests, stderr, fetched, fret>>

-----------------------------------------------------------------------------
(* Kubeconfig documents. *)

\* The decoded content of a well-formed kubeconfig text: what clientcmd.Load
\* reads from it, before any object is allocated.
RawContexts(names) ==
    UNION { [ks -> [Cluster : EntryNames \cup {""}, AuthInfo : UserNames \cup {""}]] :
              ks \in SUBSET names }

RawDocuments ==
    { [Kind |-> "Config", APIVersion |-> "v1",
       Clusters |-> [n \in cs |-> [Server |-> "https://" \o n]],
       AuthInfos |-> [n \in us |-> [Token |-> "tok-" \o n]],
       Contexts |-> xs,
       CurrentContext |-> cc] :
        cs \in SUBSET EntryNames, us \in SUBSET UserNames,
        xs \in RawContexts(EntryNames), cc \in EntryNames \cup {""} }

\* A text clientcmd.Load cannot decode.
Malformed == [malformed |-> TRUE]

\* The empty text "".
EmptyText == [empty |-> TRUE]

\* Address of an object allocated while the document of cluster `site` is
\* decoded (gen 0) or deep-copied (gen > 0).
Addr(site, kind, key) == [site |-> site, kind |-> kind, key |-> key, gen |-> 0]

\* Generator.ParseKubeconfig: clientcmd.Load allocates a fresh api.Config with
\* one fresh object per entry; a text it cannot decode is an error.
ParseKubeconfig(data, site) ==
    IF data = Malformed
    THEN [config |-> Nil, err |-> [msg |-> "failed to parse kubeconfig"]]
    ELSE [config |->
            [addr |-> Addr(site, "config", ""),
             Kind |-> data.Kind,
             APIVersion |-> data.APIVersion,
             Preferences |-> [Colors |-> FALSE],
             Extensions |-> EmptyMap,
             Clusters |-> [n \in DOMAIN data.Clusters |->
                             [addr |-> Addr(site, "cluster", n),
                              Server |-> data.Clusters[n].Server]],
             AuthInfos |-> [n \in DOMAIN data.AuthInfos |->
                             [addr |-> Addr(site, "user", n),
                              Token |-> data.AuthInfos[n].Token]],
             Contexts |-> [n \in DOMAIN data.Contexts |->
                             [addr |-> Addr(site, "context", n),
                              Cluster |-> data.Contexts[n].Cluster,
                              AuthInfo |-> data.Contexts[n].AuthInfo]],
             CurrentContext |-> data.CurrentContext],
          err |-> Nil]

\* api.NewConfig(): empty maps, no current context.
NewConfig(site) ==
    [addr |-> Addr(site, "merged", ""),
     Kind |-> "", APIVersion |-> "",
     Preferences |-> [Colors |-> FALSE],
     Extensions |-> EmptyMap,
     Clusters |-> EmptyMap, AuthInfos |-> EmptyMap, Contexts |-> EmptyMap,
     CurrentContext |-> ""]

\* (*api.Context).DeepCopy(): a new object with the same fields.
DeepCopy(context) == [context EXCEPT !.addr.gen = @ + 1]

-----------------------------------------------------------------------------
(* Generator.ApplyPrefix *)

\* NewEntryName with the non-canonical branch leaving the name as it is.
NewEntryName_Unprefixed(gprefix, own, name) ==
    IF name # own THEN name ELSE Sprintf2(gprefix, own)

\* NewEntryName with the non-canonical branch qualifying the name by the
\* cluster's own name.
NewEntryName_OwnQualified(gprefix, own, name) ==
    IF name # own
    THEN Sprintf2(gprefix, Sprintf2(own, Sprintf2("-", name)))
    ELSE Sprintf2(gprefix, own)

\* The name a cluster or context entry called `name` gets: prefixedName when
\* the name is the cluster's own name, prefix + name otherwise.
NewEntryName(gprefix, own, name) ==
    IF name # own THEN Sprintf2(gprefix, name) ELSE Sprintf2(gprefix, own)

\* The name a user entry gets.
NewUserName(gprefix, name) == Sprintf2(gprefix, name)

\* The keys of m renamed by newName (old key -> new key), each new key
\* holding the very object the old key held.  (The Go loop writes
\* newMap[newName] = entry in map order; the renaming is one-to-one on the
\* keys of a map, see RenameIsOneToOne, so no write of the loop overwrites
\* another and the order does not show.)
RenameKeys(m, newName) ==
    [k \in { newName[n] : n \in DOMAIN m } |->
        m[CHOOSE n \in DOMAIN m : newName[n] = k]]

\* NewContext with every resolved cluster reference set to prefixedName (the
\* else branch of the reference update lost).
NewContext_AlwaysCanonical(gprefix, cfg, own, context) ==
    LET copy == DeepCopy(context)
        withCluster ==
            IF context.Cluster \in DOMAIN cfg.Clusters
            THEN [copy EXCEPT !.Cluster = Sprintf2(gprefix, own)]
            ELSE copy
    IN  IF context.AuthInfo # ""
        THEN [withCluster EXCEPT !.AuthInfo = Sprintf2(gprefix, context.AuthInfo)]
        ELSE withCluster

\* The loop body of "Rename and update contexts": the copy of one context
\* with its two references updated.
NewContext(gprefix, cfg, own, context) ==
    LET copy == DeepCopy(context)
        withCluster ==
            IF context.Cluster \in DOMAIN cfg.Clusters
            THEN [copy EXCEPT !.Cluster =
                     IF context.Cluster = own
                     THEN Sprintf2(gprefix, own)
                     ELSE Sprintf2(gprefix, context.Cluster)]
            ELSE copy
    IN  IF context.AuthInfo # ""
        THEN [withCluster EXCEPT !.AuthInfo = Sprintf2(gprefix, context.AuthInfo)]
        ELSE withCluster

\* "Update current context"
NewCurrentContext(gprefix, cfg, own) ==
    IF cfg.CurrentContext # ""
    THEN IF cfg.CurrentContext = own
         THEN Sprintf2(gprefix, own)
         ELSE Sprintf2(gprefix, cfg.CurrentContext)
    ELSE cfg.CurrentContext

\* ApplyPrefix whose fast path builds a new api.Config from the three maps and
\* leaves the current context out.
ApplyPrefix_FastPathDropsCurrent(gprefix, cfg, own) ==
    IF gprefix = ""
    THEN [cfg EXCEPT !.CurrentContext = ""]
    ELSE LET E == [n \in DOMAIN cfg.Clusters \cup DOMAIN cfg.Contexts |->
                       NewEntryName(gprefix, own, n)]
             U == [n \in DOMAIN cfg.AuthInfos |-> NewUserName(gprefix, n)]
             renamed == RenameKeys(cfg.Contexts, E)
         IN  [addr |-> [cfg.addr EXCEPT !.gen = @ + 1],
              Kind |-> cfg.Kind,
              APIVersion |-> cfg.APIVersion,
              Clusters |-> RenameKeys(cfg.Clusters, E),
              Contexts |-> [k \in DOMAIN renamed |->
                              NewContext(gprefix, cfg, own, renamed[k])],
              AuthInfos |-> RenameKeys(cfg.AuthInfos, U),
              CurrentContext |-> NewCurrentContext(gprefix, cfg, own),
              Preferences |-> cfg.Preferences,
              Extensions |-> cfg.Extensions]

ApplyPrefix(gprefix, cfg, own) ==
    IF gprefix = ""
    THEN cfg
    ELSE LET E == [n \in DOMAIN cfg.Clusters \cup DOMAIN cfg.Contexts |->
                       NewEntryName(gprefix, own, n)]
             U == [n \in DOMAIN cfg.AuthInfos |-> NewUserName(gprefix, n)]
             renamed == RenameKeys(cfg.Contexts, E)
         IN  [addr |-> [cfg.addr EXCEPT !.gen = @ + 1],
              Kind |-> cfg.Kind,
              APIVersion |-> cfg.APIVersion,
              Clusters |-> RenameKeys(cfg.Clusters, E),
              Contexts |-> [k \in DOMAIN renamed |->
                              NewContext(gprefix, cfg, own, renamed[k])],
              AuthInfos |-> RenameKeys(cfg.AuthInfos, U),
              CurrentContext |-> NewCurrentContext(gprefix, cfg, own),
              Preferences |-> cfg.Preferences,
              Extensions |-> cfg.Extensions]

-----------------------------------------------------------------------------
(* Values of the variables a specification does not use. *)

IdleValidate == c = Nil /\ verr = Nil
IdleRewrite  == config = Nil /\ clusterName = "" /\ prefixedConfig = Nil
IdleMerge    == /\ clusterKubeconfigs = EmptyMap /\ todo = {} /\ order = <<>>
                /\ mergedConfig = Nil /\ mret = Nil /\ gret = Nil
IdleFetch    == /\ clusters = <<>> /\ idx = 0 /\ kubeconfigs = EmptyMap
                /\ requests = <<>> /\ stderr = <<>> /\ fetched = <<>> /\ fret = Nil

-----------------------------------------------------------------------------
(* SpecValidate: Config.Validate called once on every Config of Configs. *)

InitValidate ==
    /\ pc = "validate"
    /\ c \in Configs
    /\ verr = Nil
    /\ prefix = ""
    /\ IdleRewrite /\ IdleMerge /\ IdleFetch

NextValidate == CallValidate

SpecValidate == InitValidate /\ [][NextValidate]_vars

-----------------------------------------------------------------------------
(* SpecRewrite: ApplyPrefix applied once to every document of RawDocuments, *)
(* for every prefix and every own-cluster name.                             *)

InitRewrite ==
    /\ pc = "rewrite"
    /\ prefix \in Prefixes
    /\ clusterName \in ClusterNames
    /\ \E data \in RawDocuments : config = ParseKubeconfig(data, clusterName).config
    /\ prefixedConfig = Nil
    /\ IdleValidate /\ IdleMerge /\ IdleFetch

CallApplyPrefix ==
    /\ pc = "rewrite"
    /\ prefixedConfig' = ApplyPrefix(prefix, config, clusterName)
    /\ pc' = "rewritten"
    /\ UNCHANGED <<prefix, config, clusterName, validateVars, mergeVars, fetchVars>>

NextRewrite == CallApplyPrefix

SpecRewrite == InitRewrite /\ [][NextRewrite]_vars

\* The renaming of ApplyPrefix is one-to-one on the keys of each map.
RenameIsOneToOne ==
    pc = "rewritten" =>
        /\ \A a, b \in DOMAIN config.Clusters \cup DOMAIN config.Contexts :
              NewEntryName(prefix, clusterName, a) = NewEntryName(prefix, clusterName, b)
                 => a = b
        /\ \A a, b \in DOMAIN config.AuthInfos :
              NewUserName(prefix, a) = NewUserName(prefix, b) => a = b

-----------------------------------------------------------------------------
(* Generator.MergeConfigs and Generator.Generate *)

\* The loops "Merge into the combined config": every entry of src is written
\* into dst under its key, replacing what dst held there.
Overlay(dst, src) ==
    [k \in DOMAIN dst \cup DOMAIN src |-> IF k \in DOMAIN src THEN src[k] ELSE dst[k]]

\* MergeInto without the loop over prefixedConfig.AuthInfos.
MergeInto_NoAuthInfos(merged, prefixed) ==
    [merged EXCEPT !.Clusters = Overlay(@, prefixed.Clusters),
                   !.Contexts = Overlay(@, prefixed.Contexts)]

\* MergeInto taking over the current context of the document merged.
MergeInto_LastCurrentContext(merged, prefixed) ==
    [merged EXCEPT !.Clusters = Overlay(@, prefixed.Clusters),
                   !.Contexts = Overlay(@, prefixed.Contexts),
                   !.AuthInfos = Overlay(@, prefixed.AuthInfos),
                   !.CurrentContext = prefixed.CurrentContext]

MergeInto(merged, prefixed) ==
    [merged EXCEPT !.Clusters = Overlay(@, prefixed.Clusters),
                   !.Contexts = Overlay(@, prefixed.Contexts),
                   !.AuthInfos = Overlay(@, prefixed.AuthInfos)]

\* Generator.Serialize: clientcmd.Write encodes the content of the document;
\* no address is part of the text.
Serialize(cfg) ==
    [Kind |-> cfg.Kind, APIVersion |-> cfg.APIVersion,
     Clusters |-> [n \in DOMAIN cfg.Clusters |-> [Server |-> cfg.Clusters[n].Server]],
     AuthInfos |-> [n \in DOMAIN cfg.AuthInfos |-> [Token |-> cfg.AuthInfos[n].Token]],
     Contexts |-> [n \in DOMAIN cfg.Contexts |->
                     [Cluster |-> cfg.Contexts[n].Cluster,
                      AuthInfo |-> cfg.Contexts[n].AuthInfo]],
     CurrentContext |-> cfg.CurrentContext]

\* Generate calls MergeConfigs, which starts from api.NewConfig().
CallMergeConfigs(arg) ==
    /\ clusterKubeconfigs' = arg
    /\ todo' = DOMAIN arg
    /\ order' = <<>>
    /\ mergedConfig' = NewConfig("merge")
    /\ mret' = Nil
    /\ gret' = Nil

\* One iteration of the range loop of MergeConfigs.  Go visits the keys of a
\* map in an unspecified order: any key not yet visited may be next.
MergeRangeStep ==
    /\ pc = "merging"
    /\ \E name \in todo :
         LET parsed == ParseKubeconfig(clusterKubeconfigs[name], name)
         IN  /\ todo' = todo \ {name}
             /\ order' = Append(order, name)
             /\ IF parsed.err # Nil
                THEN /\ mret' = [config |-> Nil,
                                 err |-> [msg |-> "failed to parse kubeconfig for cluster",
                                          cluster |-> name]]
                     /\ pc' = "merged"
                     /\ UNCHANGED <<mergedConfig, config, clusterName, prefixedConfig>>
                ELSE /\ config' = parsed.config
                     /\ clusterName' = name
                     /\ prefixedConfig' = ApplyPrefix(prefix, parsed.config, name)
                     /\ mergedConfig' = MergeInto(mergedConfig, prefixedConfig')
                     /\ pc' = "merging"
                     /\ UNCHANGED mret
    /\ UNCHANGED <<prefix, clusterKubeconfigs, gret, validateVars, fetchVars>>

\* The range loop is over: return mergedConfig, nil.
MergeReturn ==
    /\ pc = "merging"
    /\ todo = {}
    /\ mret' = [config |-> mergedConfig, err |-> Nil]
    /\ pc' = "merged"
    /\ UNCHANGED <<prefix, rewriteVars, clusterKubeconfigs, todo, order, mergedConfig,
                   gret, validateVars, fetchVars>>

\* Generate: the error of MergeConfigs is returned as it is, else the merged
\* config is serialized.
GenerateReturn ==
    /\ pc = "merged"
    /\ gret' = IF mret.err # Nil
               THEN [data |-> Nil, err |-> mret.err]
               ELSE [data |-> Serialize(mret.config), err |-> Nil]
    /\ pc' = "generated"
    /\ UNCHANGED <<prefix, rewriteVars, clusterKubeconfigs, todo, order, mergedConfig,
                   mret, validateVars, fetchVars>>

-----------------------------------------------------------------------------
(* SpecMerge: Generate on every map from at most MaxDocs cluster names to  *)
(* texts of the shapes of Shapes, for every prefix.                        *)

\* The texts the document of a cluster is drawn from, by shape: a text that
\* does not decode; the empty document; a document whose context refers to a
\* cluster it does not define; and the documents with one cluster, one user
\* and one context, each named after the cluster or by the shared name, the
\* context referring to both, the current context set or not.
DocumentOf(cn, un, xn, cref, cc) ==
    [Kind |-> "Config", APIVersion |-> "v1",
     Clusters |-> [n \in {cn} |-> [Server |-> "https://" \o n]],
     AuthInfos |-> [n \in {un} |-> [Token |-> "tok-" \o n]],
     Contexts |-> [n \in {xn} |-> [Cluster |-> cref, AuthInfo |-> un]],
     CurrentContext |-> cc]

EmptyDocument ==
    [Kind |-> "Config", APIVersion |-> "v1", Clusters |-> EmptyMap,
     AuthInfos |-> EmptyMap, Contexts |-> EmptyMap, CurrentContext |-> ""]

Shapes ==
    { [kind |-> k, cluster |-> "own", user |-> "own", context |-> "own", current |-> FALSE] :
        k \in {"malformed", "empty", "dangling"} }
    \cup [kind : {"document"}, cluster : {"own", "shared"}, user : {"own", "shared"},
          context : {"own", "shared"}, current : BOOLEAN]

TextOf(own, shape) ==
    LET name(which) == IF which = "own" THEN own ELSE Shared
    IN  CASE shape.kind = "malformed" -> Malformed
          [] shape.kind = "empty" -> EmptyDocument
          [] shape.kind = "dangling" -> DocumentOf(own, own, own, "missing", own)
          [] OTHER -> DocumentOf(name(shape.cluster), name(shape.user),
                                 name(shape.context), name(shape.cluster),
                                 IF shape.current THEN name(shape.context) ELSE "")

InitMerge ==
    /\ pc = "merging"
    /\ prefix \in Prefixes
    /\ \E ks \in SUBSET Sources : \E shape \in [ks -> Shapes] :
          /\ clusterKubeconfigs = [n \in ks |-> TextOf(n, shape[n])]
          /\ todo = ks
    /\ order = <<>>
    /\ mergedConfig = NewConfig("merge")
    /\ mret = Nil
    /\ gret = Nil
    /\ IdleRewrite /\ IdleValidate /\ IdleFetch

NextMerge == MergeRangeStep \/ MergeReturn \/ GenerateReturn

SpecMerge == InitMerge /\ [][NextMerge]_vars

-----------------------------------------------------------------------------
(* Client.ListClusters, Client.GetClusterKubeconfig, Client.GetAllKubeconfigs *)

\* The cluster records the Rancher API may list: the id is the position in
\* the list, two records may carry the same name.
ClusterStates == {"active", "provisioning"}

ClusterLists ==
    UNION { { l \in [1..n -> [ID : 1..n, Name : ClusterNames, State : ClusterStates]] :
                \A i \in 1..n : l[i].ID = i } : n \in 0..MaxList }

\* What GetClusterKubeconfig may return for a cluster: an error (the request
\* failed, the status was not 200, the body did not decode), or the text of
\* the field config of the response.
FetchOutcomes(cluster) ==
    { [config |-> EmptyText, err |-> [msg |-> "failed to get kubeconfig for cluster"]] }
    \cup { [config |-> t, err |-> Nil] :
             t \in { Malformed,
                     DocumentOf(cluster.Name, cluster.Name, cluster.Name,
                                cluster.Name, cluster.Name),
                     DocumentOf(Shared, Shared, Shared, Shared, Shared) } }

\* IsActive with the state check lost.
IsActive_Always(cluster) == TRUE

\* "Skip clusters that are not active"
IsActive(cluster) == cluster.State = "active"

\* AfterFetch without the continue of the error branch: the returned text is
\* stored for a failed cluster too.
AfterFetch_NoContinue(kcs, errout, cluster, got) ==
    [kubeconfigs |-> [k \in DOMAIN kcs \cup {cluster.Name} |->
                        IF k = cluster.Name THEN got.config ELSE kcs[k]],
     stderr |-> IF got.err # Nil
                THEN Append(errout, [warning |-> "failed to get kubeconfig for cluster",
                                     name |-> cluster.Name, id |-> cluster.ID])
                ELSE errout]

\* The part of the loop body after GetClusterKubeconfig returned `got`: on an
\* error a warning line goes to os.Stderr and the loop continues, else the
\* text is stored under the cluster's name.
AfterFetch(kcs, errout, cluster, got) ==
    IF got.err # Nil
    THEN [kubeconfigs |-> kcs,
          stderr |-> Append(errout, [warning |-> "failed to get kubeconfig for cluster",
                                     name |-> cluster.Name, id |-> cluster.ID])]
    ELSE [kubeconfigs |-> [k \in DOMAIN kcs \cup {cluster.Name} |->
                             IF k = cluster.Name THEN got.config ELSE kcs[k]],
          stderr |-> errout]

\* GetAllKubeconfigs calls ListClusters: an error is returned as it is, else
\* the loop over the records starts with an empty map.
ListClusters ==
    /\ pc = "list"
    /\ \/ /\ fret' = [kubeconfigs |-> Nil, err |-> [msg |-> "failed to list clusters"]]
          /\ pc' = "fetched"
          /\ UNCHANGED <<clusters, idx, kubeconfigs>>
       \/ \E l \in ClusterLists :
            /\ clusters' = l
            /\ idx' = 1
            /\ kubeconfigs' = EmptyMap
            /\ pc' = "fetching"
            /\ UNCHANGED fret
    /\ UNCHANGED <<prefix, requests, stderr, fetched, validateVars, rewriteVars, mergeVars>>

\* One iteration of the range loop of GetAllKubeconfigs.
FetchRangeStep ==
    /\ pc = "fetching"
    /\ idx <= Len(clusters)
    /\ LET cluster == clusters[idx]
       IN  IF ~IsActive(cluster)
           THEN /\ fetched' = Append(fetched, [called |-> FALSE, got |-> Nil])
                /\ UNCHANGED <<requests, kubeconfigs, stderr>>
           ELSE \E got \in FetchOutcomes(cluster) :
                  LET after == AfterFetch(kubeconfigs, stderr, cluster, got)
                  IN  /\ requests' = Append(requests, [method |-> "POST", id |-> cluster.ID])
                      /\ fetched' = Append(fetched, [called |-> TRUE, got |-> got])
                      /\ kubeconfigs' = after.kubeconfigs
                      /\ stderr' = after.stderr
    /\ idx' = idx + 1
    /\ UNCHANGED <<pc, prefix, clusters, fret, validateVars, rewriteVars, mergeVars>>

\* The range loop is over: return kubeconfigs, nil.
FetchReturn ==
    /\ pc = "fetching"
    /\ idx > Len(clusters)
    /\ fret' = [kubeconfigs |-> kubeconfigs, err |-> Nil]
    /\ pc' = "fetched"
    /\ UNCHANGED <<prefix, clusters, idx, kubeconfigs, requests, stderr, fetched,
                   validateVars, rewriteVars, mergeVars>>

\* The generate command hands the map GetAllKubeconfigs returned to
\* Generator.Generate.
RunGenerate ==
    /\ pc = "fetched"
    /\ fret.err = Nil
    /\ CallMergeConfigs(fret.kubeconfigs)
    /\ pc' = "merging"
    /\ UNCHANGED <<prefix, validateVars, rewriteVars, fetchVars>>

-----------------------------------------------------------------------------
(* Spec: one run of the generate command, from the listing of the clusters *)
(* to the merged kubeconfig, for every prefix.                             *)

Init ==
    /\ pc = "list"
    /\ prefix \in Prefixes
    /\ IdleFetch /\ IdleMerge /\ IdleRewrite /\ IdleValidate

Next ==
    \/ ListClusters
    \/ FetchRangeStep
    \/ FetchReturn
    \/ RunGenerate
    \/ MergeRangeStep
    \/ MergeReturn
    \/ GenerateReturn

Spec == Init /\ [][Next]_vars

-----------------------------------------------------------------------------
(* Properties of ApplyPrefix (SpecRewrite). *)

\* The referential-integrity invariant of a document: every non-empty cluster
\* reference of a context is a key of Clusters, every non-empty user reference
\* a key of AuthInfos.
ReferentialIntegrity(cfg) ==
    \A n \in DOMAIN cfg.Contexts :
        /\ cfg.Contexts[n].Cluster # "" => cfg.Contexts[n].Cluster \in DOMAIN cfg.Clusters
        /\ cfg.Contexts[n].AuthInfo # "" => cfg.Contexts[n].AuthInfo \in DOMAIN cfg.AuthInfos

\* An entry without its address, a document without its addresses: what
\* structural equality compares.
EntryContent(e) == [f \in DOMAIN e \ {"addr"} |-> e[f]]

Content(cfg) ==
    [Kind |-> cfg.Kind, APIVersion |-> cfg.APIVersion,
     Preferences |-> cfg.Preferences, Extensions |-> cfg.Extensions,
     Clusters |-> [n \in DOMAIN cfg.Clusters |-> EntryContent(cfg.Clusters[n])],
     AuthInfos |-> [n \in DOMAIN cfg.AuthInfos |-> EntryContent(cfg.AuthInfos[n])],
     Contexts |-> [n \in DOMAIN cfg.Contexts |-> EntryContent(cfg.Contexts[n])],
     CurrentContext |-> cfg.CurrentContext]

\* C1: ApplyPrefix preserves referential integrity: whenever the input
\* document satisfies it, so does the returned document, for every prefix and
\* every own-cluster name.
C1_IntegrityPreserved ==
    (pc = "rewritten" /\ ReferentialIntegrity(config))
        => ReferentialIntegrity(prefixedConfig)

\* A prefixed, valid document with a context whose two references are set and
\* whose cluster reference is not the own-cluster name has been rewritten.
C1_Witness ==
    /\ pc = "rewritten" /\ prefix # ""
    /\ ReferentialIntegrity(config)
    /\ \E n \in DOMAIN config.Contexts :
          /\ config.Contexts[n].Cluster \notin {"", clusterName}
          /\ config.Contexts[n].AuthInfo # ""
    /\ ReferentialIntegrity(prefixedConfig)

\* The renaming the two-case rule prescribes, written from the rule: the
\* canonical name prefix + own for the entry named own, prefix + n otherwise.
TwoCaseName(p, own, n) == IF n = own THEN p \o own ELSE p \o n

\* A reference is renamed like its target; the empty reference stays empty.
TwoCaseRef(p, own, r) == IF r = "" THEN "" ELSE TwoCaseName(p, own, r)
UserRef(p, r) == IF r = "" THEN "" ELSE p \o r

\* out is in under the reference renaming.
IsReferenceRenaming(p, own, in, out) ==
    /\ DOMAIN out.Clusters = { TwoCaseName(p, own, n) : n \in DOMAIN in.Clusters }
    /\ \A n \in DOMAIN in.Clusters :
          EntryContent(out.Clusters[TwoCaseName(p, own, n)]) = EntryContent(in.Clusters[n])
    /\ DOMAIN out.AuthInfos = { p \o m : m \in DOMAIN in.AuthInfos }
    /\ \A m \in DOMAIN in.AuthInfos :
          EntryContent(out.AuthInfos[p \o m]) = EntryContent(in.AuthInfos[m])
    /\ DOMAIN out.Contexts = { TwoCaseName(p, own, n) : n \in DOMAIN in.Contexts }
    /\ \A n \in DOMAIN in.Contexts :
          EntryContent(out.Contexts[TwoCaseName(p, own, n)]) =
              [Cluster |-> TwoCaseRef(p, own, in.Contexts[n].Cluster),
               AuthInfo |-> UserRef(p, in.Contexts[n].AuthInfo)]
    /\ out.CurrentContext = TwoCaseRef(p, own, in.CurrentContext)
    /\ out.Kind = in.Kind /\ out.APIVersion = in.APIVersion
    /\ out.Preferences = in.Preferences /\ out.Extensions = in.Extensions

\* C2: with a non-empty prefix, the document ApplyPrefix returns for a valid
\* document is the reference renaming of it: clusters and contexts by the
\* two-case rule, users by prefix + m, each reference like its target, the
\* active context by the context rule.
C2_TwoCaseRenaming ==
    (pc = "rewritten" /\ prefix # "" /\ ReferentialIntegrity(config))
        => IsReferenceRenaming(prefix, clusterName, config, prefixedConfig)

\* Context "c1-alt" of cluster c1, referencing cluster "c1", has become
\* "prod-c1-alt" referencing "prod-c1"; the active context was set.
C2_Witness ==
    /\ pc = "rewritten" /\ prefix = "prod-" /\ clusterName = "c1"
    /\ ReferentialIntegrity(config)
    /\ "c1-alt" \in DOMAIN config.Contexts
    /\ config.Contexts["c1-alt"].Cluster = "c1"
    /\ config.CurrentContext = "c1"
    /\ "prod-c1-alt" \in DOMAIN prefixedConfig.Contexts
    /\ prefixedConfig.Contexts["prod-c1-alt"].Cluster = "prod-c1"
    /\ prefixedConfig.CurrentContext = "prod-c1"

\* C3: with the empty prefix, ApplyPrefix returns a document structurally equal
\* to its input, for every valid document and every own-cluster name.
C3_IdentityOnEmptyPrefix ==
    (pc = "rewritten" /\ prefix = "" /\ ReferentialIntegrity(config))
        => Content(prefixedConfig) = Content(config)

\* ApplyPrefix has run with the empty prefix on a valid document that has
\* entries in all three maps, references and an active context.
C3_Witness ==
    /\ pc = "rewritten" /\ prefix = ""
    /\ ReferentialIntegrity(config)
    /\ DOMAIN config.Clusters # {} /\ DOMAIN config.AuthInfos # {}
    /\ \E n \in DOMAIN config.Contexts :
          config.Contexts[n].Cluster # "" /\ config.Contexts[n].AuthInfo # ""
    /\ config.CurrentContext # ""
    /\ Content(prefixedConfig) = Content(config)

-----------------------------------------------------------------------------
(* Properties of MergeConfigs (SpecMerge). *)

MapFields == {"Clusters", "AuthInfos", "Contexts"}

\* The document of cluster `name` as MergeConfigs decodes and rewrites it.
Decodes(name) == clusterKubeconfigs[name] # Malformed
Parsed(name) == ParseKubeconfig(clusterKubeconfigs[name], name).config
Rewritten(name) == ApplyPrefix(prefix, Parsed(name), name)

\* Position of cluster `name` in the order the range loop visited the keys.
Position(name) == CHOOSE i \in 1..Len(order) : order[i] = name

\* The clusters whose rewritten document defines key k in map f.
Definers(f, k) ==
    { n \in DOMAIN clusterKubeconfigs : Decodes(n) /\ k \in DOMAIN Rewritten(n)[f] }

\* The warnings a returned value carries: those of its field warnings, none
\* when it has no such field.
ReturnedWarnings(ret) == IF "warnings" \in DOMAIN ret THEN ret.warnings ELSE {}

\* Every entry of the merged document is the entry of the cluster visited
\* last among those that define its key: the later write replaces the earlier.
MergeLastWriteWins ==
    (mret # Nil /\ mret.err = Nil) =>
        \A f \in MapFields :
            /\ DOMAIN mret.config[f] =
                  UNION { DOMAIN Rewritten(n)[f] : n \in DOMAIN clusterKubeconfigs }
            /\ \A k \in DOMAIN mret.config[f] :
                  \E n \in Definers(f, k) :
                     /\ \A m \in Definers(f, k) : Position(m) <= Position(n)
                     /\ mret.config[f][k] = Rewritten(n)[f][k]

\* C4: when the rewritten documents of two clusters define the same key in the
\* same map, the merge is not aborted, the merged document holds under that
\* key the entry of the cluster visited later, and the merge returns exactly
\* one collision warning for the key, naming the key and the two clusters.
C4_CollisionWarned ==
    (mret # Nil /\ \A n \in DOMAIN clusterKubeconfigs : Decodes(n)) =>
        /\ mret.err = Nil
        /\ \A f \in MapFields : \A a, b \in DOMAIN clusterKubeconfigs :
             \A k \in DOMAIN Rewritten(a)[f] \cap DOMAIN Rewritten(b)[f] :
                (Position(a) < Position(b) /\ Definers(f, k) = {a, b}) =>
                    /\ k \in DOMAIN mret.config[f]
                    /\ mret.config[f][k] = Rewritten(b)[f][k]
                    /\ Cardinality({ w \in ReturnedWarnings(mret) :
                                       w.key = k /\ w.field = f }) = 1
                    /\ \A w \in ReturnedWarnings(mret) :
                          (w.key = k /\ w.field = f) => w.sources = {a, b}

RECURSIVE SumOver(_, _, _)
\* The sum over the clusters of S of the number of keys of map f of their
\* rewritten documents.
SumOver(S, f, acc) ==
    IF S = {} THEN acc
    ELSE LET n == CHOOSE x \in S : TRUE
         IN  SumOver(S \ {n}, f, acc + Cardinality(DOMAIN Rewritten(n)[f]))

\* No key of a map is defined by the rewritten documents of two clusters.
PairwiseDisjoint ==
    \A f \in MapFields : \A a, b \in DOMAIN clusterKubeconfigs :
        a # b => DOMAIN Rewritten(a)[f] \cap DOMAIN Rewritten(b)[f] = {}

C6_ActiveContext ==
    (mret # Nil /\ mret.err = Nil) =>
        /\ \A n \in DOMAIN clusterKubeconfigs :
              DOMAIN clusterKubeconfigs = {n} =>
                  mret.config.CurrentContext = Rewritten(n).CurrentContext
        /\ Cardinality(DOMAIN clusterKubeconfigs) >= 2 => mret.config.CurrentContext = ""

\* C7: when the text of one cluster does not decode and the text of another
\* does, the merge still returns a merged document; it holds the entries of
\* every cluster whose text decodes, and a warning is returned for each
\* cluster whose text does not.
C7_ParseFailureTolerated ==
    (/\ mret # Nil
     /\ \E n \in DOMAIN clusterKubeconfigs : ~Decodes(n)
     /\ \E n \in DOMAIN clusterKubeconfigs : Decodes(n)) =>
        /\ mret.err = Nil
        /\ \A n \in DOMAIN clusterKubeconfigs :
              IF Decodes(n)
              THEN \A f \in MapFields : DOMAIN Rewritten(n)[f] \subseteq DOMAIN mret.config[f]
              ELSE \E w \in ReturnedWarnings(mret) : w.cluster = n

-----------------------------------------------------------------------------
(* Properties of GetAllKubeconfigs (Spec). *)

\* ListClusters returned a list, and the loop has started.
Listed == idx > 0

\* The records visited so far whose fetch succeeded, respectively failed.
Succeeded == { i \in 1..Len(fetched) : fetched[i].called /\ fetched[i].got.err = Nil }
FailedFetch == { i \in 1..Len(fetched) : fetched[i].called /\ fetched[i].got.err # Nil }

\* Every entry of the merged document was decoded from the document of a
\* cluster named in S.
MergedOnlyFrom(S) ==
    (mret # Nil /\ mret.err = Nil) =>
        \A f \in MapFields : \A k \in DOMAIN mret.config[f] :
            mret.config[f][k].addr.site \in S

C9_InactiveNeverFetched ==
    /\ [](\A j \in 1..Len(requests) : clusters[requests[j].id].State = "active")
    /\ [][(pc = "fetching" /\ idx <= Len(clusters) /\ clusters[idx].State # "active")
            => (requests' = requests /\ kubeconfigs' = kubeconfigs)]_vars

\* GetAllKubeconfigs returned after passing over a record that is not active
\* and fetching the document of an active one; the name of the former is no
\* key of the result.
C9_Witness ==
    /\ fret # Nil /\ Listed
    /\ \E i, j \in 1..Len(fetched) :
          /\ clusters[i].State # "active" /\ ~fetched[i].called
          /\ clusters[i].Name \notin DOMAIN fret.kubeconfigs
          /\ j \in Succeeded
          /\ \E r \in 1..Len(requests) : requests[r].id = j

-----------------------------------------------------------------------------
(* Properties of Config.Validate (SpecValidate). *)

\* The token is cut at its first ":" into two non-empty parts.
TwoNonEmptyParts(token) ==
    /\ Len(SplitN2(token)) = 2
    /\ SplitN2(token)[1] # <<>>
    /\ SplitN2(token)[2] # <<>>

\* C10: Validate returns an error when neither a token nor a complete
\* access-key/secret-key pair is given, and when the token given does not
\* split at ":" into two non-empty parts; when it returns nil, the access key
\* and the secret key of the config are both non-empty.
C10_ValidateRejectsBadAuth ==
    pc = "validated" =>
        /\ (c.Token = <<>> /\ (c.AccessKey = <<>> \/ c.SecretKey = <<>>)) => verr # Nil
        /\ (c.Token # <<>> /\ ~TwoNonEmptyParts(c.Token)) => verr # Nil
        /\ verr = Nil => (GetBasicAuth(c)[1] # <<>> /\ GetBasicAuth(c)[2] # <<>>)

-----------------------------------------------------------------------------
(* MergeConfigs as a function of the order its range loop visits the keys. *)

\* The orders in which a range loop may visit the keys S of a map.
Orders(S) ==
    { s \in [1..Cardinality(S) -> S] : \A i, j \in DOMAIN s : s[i] = s[j] => i = j }

RECURSIVE RangeFrom(_, _, _, _)
\* The rest of the range loop of MergeConfigs, visiting the keys seq[i..] of
\* kcs in that order with mergedConfig = merged: what MergeConfigs returns.
RangeFrom(gprefix, kcs, seq, merged) ==
    IF seq = <<>>
    THEN [config |-> merged, err |-> Nil]
    ELSE LET name == Head(seq)
             parsed == ParseKubeconfig(kcs[name], name)
         IN  IF parsed.err # Nil
             THEN [config |-> Nil,
                   err |-> [msg |-> "failed to parse kubeconfig for cluster",
                            cluster |-> name]]
             ELSE RangeFrom(gprefix, kcs, Tail(seq),
                            MergeInto(merged, ApplyPrefix(gprefix, parsed.config, name)))

\* What MergeConfigs returns when its range loop visits the keys in order seq.
MergeConfigsInOrder(gprefix, kcs, seq) ==
    RangeFrom(gprefix, kcs, seq, NewConfig("merge"))

\* What the run returned is what MergeConfigs returns for the order the run
\* visited the keys in (up to the key that failed to parse, if one did).
MergeFollowsOrder ==
    mret # Nil => mret = MergeConfigsInOrder(prefix, clusterKubeconfigs, order)

-----------------------------------------------------------------------------
(* Properties of the order of the merge (SpecMerge). *)

\* C11: the merged document MergeConfigs returns is the same for every run on
\* the same map of cluster names to texts and the same prefix: it is the
\* document returned for any order the range loop may visit the keys in,
\* with the same serialized content, the entry under a colliding key included.
C11_ReproducibleMerge ==
    (mret # Nil /\ mret.err = Nil) =>
        \A seq \in Orders(DOMAIN clusterKubeconfigs) :
            Serialize(MergeConfigsInOrder(prefix, clusterKubeconfigs, seq).config)
                = Serialize(mret.config)

-----------------------------------------------------------------------------
(* Properties of the objects of ApplyPrefix (SpecRewrite). *)

\* The cluster, user and context objects a document points to.
Objects(cfg) ==
    UNION { { cfg[f][n].addr : n \in DOMAIN cfg[f] } : f \in MapFields }

\* C12: ApplyPrefix leaves its input document as it was, for every prefix, and
\* the document it returns is another object than the input and points to no
\* cluster, user or context object the input points to (a write through an
\* entry of one document is then never seen through the other).
C12_NoSideEffectNoSharing ==
    /\ [][config' = config]_vars
    /\ [](pc = "rewritten" =>
            /\ prefixedConfig.addr # config.addr
            /\ Objects(prefixedConfig) \cap Objects(config) = {})

-----------------------------------------------------------------------------
(* Properties of the keys of the rewritten documents (SpecMerge). *)

\* The names the documents of clusters a and b both define in map f.
SharedNames(a, b, f) == DOMAIN Parsed(a)[f] \cap DOMAIN Parsed(b)[f]

\* The clusters the range loop has visited.
Visited == { order[i] : i \in 1..Len(order) }

\* A step of MergeConfigs replaces an entry mergedConfig held by another.
MergeOverwrites ==
    \E f \in MapFields : \E k \in DOMAIN mergedConfig[f] :
        mergedConfig'[f][k] # mergedConfig[f][k]

\* A step of the range loop that visits a cluster whose text decodes.
MergesOne == order' # order /\ Decodes(order'[Len(order')])

\* C13 as stated: the documents of distinct clusters, each with its entry
\* names unique in its maps, have after ApplyPrefix with the common prefix no
\* key of a map in common, and no step of MergeConfigs overwrites an entry.
C13_Original ==
    /\ [](\A a, b \in DOMAIN clusterKubeconfigs :
            (a # b /\ Decodes(a) /\ Decodes(b)) =>
                \A f \in MapFields :
                    DOMAIN Rewritten(a)[f] \cap DOMAIN Rewritten(b)[f] = {})
    /\ [][~MergeOverwrites]_vars

\* C13, amended: the rewritten documents of two distinct clusters have in a
\* map exactly the keys prefix + n in common for the names n their source
\* documents have in common in that map; and a step of MergeConfigs overwrites
\* an entry exactly when the document it merges has, in some map, a name in
\* common with a document merged before it.
C13_CollisionsAreSharedNames ==
    /\ [](\A a, b \in DOMAIN clusterKubeconfigs :
            (a # b /\ Decodes(a) /\ Decodes(b)) =>
                \A f \in MapFields :
                    DOMAIN Rewritten(a)[f] \cap DOMAIN Rewritten(b)[f]
                        = { prefix \o n : n \in SharedNames(a, b, f) })
    /\ [][MergesOne =>
            (MergeOverwrites <=>
                \E b \in Visited : \E f \in MapFields :
                    SharedNames(order'[Len(order')], b, f) # {})]_vars

\* Two documents that both name a context "default", each with its cluster
\* and user named after its own cluster, were rewritten with the prefix
\* "prod-" and merged: the merged document has one context "prod-default".
C13_Witness ==
    /\ mret # Nil /\ mret.err = Nil /\ prefix = "prod-"
    /\ \E a, b \in DOMAIN clusterKubeconfigs :
          /\ a # b
          /\ SharedNames(a, b, "Contexts") = {Shared}
          /\ SharedNames(a, b, "Clusters") = {}
          /\ DOMAIN Rewritten(a).Contexts \cap DOMAIN Rewritten(b).Contexts
                = {"prod-default"}
    /\ DOMAIN mret.config.Contexts = {"prod-default"}
    /\ Cardinality(DOMAIN mret.config.Clusters) = 2

-----------------------------------------------------------------------------
(* Order independence of MergeConfigs (SpecMerge). *)

\* C14: when the rewritten documents have pairwise disjoint key sets in each
\* map, MergeConfigs returns for every other order in which its range loop may
\* visit them the merged document it returned for the order of the run; and
\* for any inputs, the documents returned for two orders have the same keys in
\* each map and differ at most in the entries under keys that two or more
\* rewritten documents define.
C14_OrderIndependence ==
    (mret # Nil /\ mret.err = Nil) =>
        LET disjoint == PairwiseDisjoint
        IN  \A seq \in Orders(DOMAIN clusterKubeconfigs) \ {order} :
                LET other == MergeConfigsInOrder(prefix, clusterKubeconfigs, seq).config
                IN  /\ disjoint => other = mret.config
                    /\ other.CurrentContext = mret.config.CurrentContext
                    /\ \A f \in MapFields :
                          /\ DOMAIN other[f] = DOMAIN mret.config[f]
                          /\ \A k \in DOMAIN other[f] :
                                other[f][k] # mret.config[f][k]
                                    => Cardinality(Definers(f, k)) >= 2

\* Two documents with disjoint key sets, each with a cluster, a user, a
\* context and an active context, have been merged; the other order of
\* visiting them returns the same document.
C14_Witness ==
    /\ mret # Nil /\ mret.err = Nil
    /\ Cardinality(DOMAIN clusterKubeconfigs) >= 2
    /\ PairwiseDisjoint
    /\ \A n \in DOMAIN clusterKubeconfigs :
          /\ \A f \in MapFields : DOMAIN Rewritten(n)[f] # {}
          /\ Rewritten(n).CurrentContext # ""
    /\ \E seq \in Orders(DOMAIN clusterKubeconfigs) :
          /\ seq # order
          /\ MergeConfigsInOrder(prefix, clusterKubeconfigs, seq).config = mret.config
    /\ \A f \in MapFields :
          Cardinality(DOMAIN mret.config[f]) = Cardinality(DOMAIN clusterKubeconfigs)

====
